---- MODULE Spec2Model ----
(***************************************************************************)
(* A model of the TraceKit metrics pipeline: the metric instruments, the   *)
(* MetricsBuffer with its size- and time-triggered flushes, the background *)
(* flush worker, shutdown(), and the MetricsRegistry accessors.            *)
(*                                                                         *)
(* Threads are modelled at the granularity of Python statements that touch *)
(* shared state: a `with lock:` block is an acquire step followed by a     *)
(* body-and-release step, an unlocked read of a flag is a step of its own, *)
(* and exporter.export is a call step followed by a return step (the       *)
(* network I/O happens between the two).                                   *)
(***************************************************************************)
EXTENDS Integers, Sequences, FiniteSets, TLC

\* ------------------------------------------------------------------ bounds

\* Number of instrument calls the producer threads make in total.
MaxCalls == 3

\* MetricsBuffer.max_size, scaled down from the default of 100.
max_size == 2

\* ----------------------------------------------------------------- threads

Producers == {"p1", "p2"}
Worker == "worker"          \* the thread running MetricsBuffer._flush_loop
Closer == "closer"          \* the thread that calls MetricsBuffer.shutdown
Threads == Producers \cup {Worker, Closer}
NoThread == "none"

VARIABLES
    data,          \* MetricsBuffer.data: the pending list
    _lock,         \* MetricsBuffer._lock: its owner, or NoThread
    _shutdown,     \* MetricsBuffer._shutdown
    _value,        \* GaugeImpl._value
    gauge_lock,    \* GaugeImpl._lock: its owner, or NoThread
    pc,            \* each thread's position
    data_point,    \* add()'s argument, per producer
    to_export,     \* _flush()'s local, per thread
    calls,         \* instrument calls started, per producer
    appended,      \* history: the points appended, in lock-acquisition order
    swapped,       \* history: the batches _flush swapped out, in swap order
    exported,      \* history: the calls of exporter.export, in call order
    quiet,         \* history: no instrument call was in progress when
                   \* shutdown() was called
    gauge_log,     \* history: the gauge's updates in the order they were
                   \* applied, each with the accumulator's value after it
    counter_calls, \* history: the values given to Counter.add, per producer
    instruments,   \* MetricsRegistry.counters / gauges / histograms, per kind:
                   \* key -> instrument object
    registry_lock, \* MetricsRegistry._lock: its owner, or NoThread
    objects,       \* the instrument objects constructed so far, by identity
    rpc,           \* each accessor thread's position
    args,          \* the accessor call in progress, per thread
    lookups,       \* accessor calls started so far
    returned,      \* history: what the accessor calls returned
    keyed,         \* the (name, tags) given to _metric_key, with the key it
                   \* returned
    xpc,           \* MetricsExporter.export: the call's position
    data_points,   \* export()'s argument
    payload,       \* the metrics array _to_otlp built
    conn,          \* the connection object: "none", "open" or "closed"
    requests,      \* requests sent on the connection
    status_code,   \* response.status, 0 while there is no response
    raised,        \* the exception leaving export's try block, or "none"
    span_state,    \* the span: "Unstarted", "Active" or "Ended"
    span_kind,     \* the kind the span was started with
    span_ops,      \* history: the operations invoked on the span object
    span_log,      \* history: the client calls made about the span
    spans,         \* the spans the tracer has created, in creation order
    current_span,  \* the span active in the engine's context, or NoSpan
    _global_client,\* tracekit._global_client: a client, or NoClient for None
    created,       \* the number of TracekitClient objects constructed
    module_log,    \* history: the calls of init and get_client, with outcomes
    heap,          \* the tag mappings alive, by reference; 1 is the caller's
    held,          \* the instruments created from the caller's mapping
    tag_points,    \* history: the data points those instruments emitted
    tag_steps,     \* calls made on the mapping, the registry, the instruments
    resolved,      \* history: the calls of _resolve_endpoint, with results
    ends           \* end_span calls made so far

bufferVars == <<data, _lock, _shutdown, _value, gauge_lock, pc, data_point,
                to_export, calls, appended, swapped, exported, quiet,
                gauge_log, counter_calls>>

registryVars == <<instruments, registry_lock, objects, rpc, args, lookups,
                  returned>>

\* What the buffer's and the gauge's steps leave alone, and what the
\* registry's steps leave alone.
exporterVars == <<xpc, data_points, payload, conn, requests, status_code,
                  raised>>

spanVars == <<span_state, span_kind, span_ops, span_log, ends>>

traceVars == <<spans, current_span>>

moduleVars == <<_global_client, created, module_log>>

tagVars == <<heap, held, tag_points, tag_steps>>

resolveVars == <<resolved>>

outsideMetrics == <<registryVars, keyed, exporterVars, spanVars, traceVars,
                    moduleVars, tagVars, resolveVars>>
outsideBuffer == <<counter_calls, outsideMetrics>>
outsideRegistry == <<bufferVars, keyed, exporterVars, spanVars, traceVars,
                     moduleVars, tagVars, resolveVars>>
outsideKey == <<bufferVars, registryVars, exporterVars, spanVars, traceVars,
                moduleVars, tagVars, resolveVars>>
outsideExporter == <<bufferVars, registryVars, keyed, spanVars, traceVars,
                     moduleVars, tagVars, resolveVars>>
outsideSpan == <<bufferVars, registryVars, keyed, exporterVars, traceVars,
                 moduleVars, tagVars, resolveVars>>
outsideTrace == <<bufferVars, registryVars, keyed, exporterVars, spanVars,
                  moduleVars, tagVars, resolveVars>>
outsideModule == <<bufferVars, registryVars, keyed, exporterVars, spanVars,
                   traceVars, tagVars, resolveVars>>
outsideTags == <<bufferVars, registryVars, keyed, exporterVars, spanVars,
                 traceVars, moduleVars, resolveVars>>
outsideResolve == <<bufferVars, registryVars, keyed, exporterVars, spanVars,
                    traceVars, moduleVars, tagVars>>

vars == <<bufferVars, registryVars, keyed, exporterVars, spanVars, traceVars,
          moduleVars, tagVars, resolveVars>>

bufferState == <<data, _lock, _shutdown>>
gaugeState == <<_value, gauge_lock, gauge_log>>
history == <<appended, swapped, exported, quiet>>

\* --------------------------------------------------------------- exporter

\* What the collector (or the network) answers to one POST: an HTTP status,
\* or 0 for a transport error raised by http.client.
Responses == {200, 503, 0}

\* The exception MetricsExporter.export raises for a response: none for a
\* 200, Exception("HTTP <status>") for any other status, and the OSError of
\* http.client for a transport error.
ExportRaises(resp) ==
    IF resp = 0 THEN "OSError"
    ELSE IF resp # 200 THEN "Exception"
    ELSE "none"

\* Mutant: the handler of _flush catches transport errors only.
FlushCatches_OSErrorOnly(exc) == exc = "OSError"

\* `except Exception` in _flush: both OSError and Exception are caught.
FlushCatches(exc) == exc \in {"Exception", "OSError"}

\* ------------------------------------------------------------ MetricsBuffer

MetricDataPoint(p, n, kind, v) ==
    [src |-> p, n |-> n, metric_type |-> kind, value |-> v]

NoPoint == [src |-> NoThread, n |-> 0, metric_type |-> "none", value |-> 0]

\* Where a thread continues when its _flush() call returns.
AfterFlush(t) ==
    IF t = Worker THEN "loop_check"
    ELSE IF t = Closer THEN "done"
    ELSE "idle"

\* Mutant: add() does not look at the shutdown flag.
Dropped_Never(flag) == FALSE

\* add(): the test of `if self._shutdown: return`.
Dropped(flag) == flag

\* add(): `if self._shutdown: return`, read without the lock.
AddCheck(p) ==
    /\ pc[p] = "add_check"
    /\ IF Dropped(_shutdown)
       THEN /\ pc' = [pc EXCEPT ![p] = "idle"]
            /\ data_point' = [data_point EXCEPT ![p] = NoPoint]
       ELSE /\ pc' = [pc EXCEPT ![p] = "add_lock"]
            /\ UNCHANGED data_point
    /\ UNCHANGED <<bufferState, gaugeState, to_export, calls, history>>
    /\ UNCHANGED outsideBuffer

\* add(): entering `with self._lock:`.
AddLock(p) ==
    /\ pc[p] = "add_lock"
    /\ _lock = NoThread
    /\ _lock' = p
    /\ pc' = [pc EXCEPT ![p] = "add_append"]
    /\ UNCHANGED <<data, _shutdown, gaugeState, data_point, to_export, calls,
                   history>>
    /\ UNCHANGED outsideBuffer

\* Mutant: the threshold test is strict.
ShouldFlush_Strict(d) == Len(d) > max_size

\* The value of should_flush computed under the lock.
ShouldFlush(d) == Len(d) >= max_size

\* Mutant: a point is not appended to a list that holds max_size points.
ListAppend_DropWhenFull(d, pt) == IF Len(d) >= max_size THEN d ELSE Append(d, pt)

\* Mutant: the point is inserted at the front of the list.
ListAppend_Front(d, pt) == <<pt>> \o d

\* `self.data.append(data_point)`.
ListAppend(d, pt) == Append(d, pt)

\* add(): append, compute should_flush, leave the `with` block.
AddAppend(p) ==
    /\ pc[p] = "add_append"
    /\ _lock = p
    /\ data' = ListAppend(data, data_point[p])
    /\ appended' = Append(appended, data_point[p])
    /\ _lock' = NoThread
    /\ pc' = [pc EXCEPT ![p] = IF ShouldFlush(data') THEN "flush_lock"
                                ELSE "idle"]
    /\ data_point' = [data_point EXCEPT ![p] = NoPoint]
    /\ UNCHANGED <<_shutdown, gaugeState, to_export, calls, swapped, exported,
                   quiet>>
    /\ UNCHANGED outsideBuffer

\* _flush(): entering `with self._lock:`.
FlushLock(t) ==
    /\ pc[t] = "flush_lock"
    /\ _lock = NoThread
    /\ _lock' = t
    /\ pc' = [pc EXCEPT ![t] = "flush_swap"]
    /\ UNCHANGED <<data, _shutdown, gaugeState, data_point, to_export, calls,
                   history>>
    /\ UNCHANGED outsideBuffer

\* Mutant: _flush takes the pending list without replacing it.
DataAfterSwap_Kept(d) == d

\* `self.data = []` in _flush.
DataAfterSwap(d) == << >>

\* Mutant: the export call is made inside the `with self._lock:` block.
LockAfterSwap_Held(t) == t

\* The owner of the buffer lock once _flush has left its `with` block.
LockAfterSwap(t) == NoThread

\* _flush(): return on empty data, else swap the list out; leave the block.
FlushSwap(t) ==
    /\ pc[t] = "flush_swap"
    /\ _lock = t
    /\ IF data = << >>
       THEN /\ _lock' = NoThread
            /\ pc' = [pc EXCEPT ![t] = AfterFlush(t)]
            /\ UNCHANGED <<data, to_export, swapped>>
       ELSE /\ to_export' = [to_export EXCEPT ![t] = data]
            /\ data' = DataAfterSwap(data)
            /\ swapped' = Append(swapped, [batch |-> data, by |-> t])
            /\ _lock' = LockAfterSwap(t)
            /\ pc' = [pc EXCEPT ![t] = "export"]
    /\ UNCHANGED <<_shutdown, gaugeState, data_point, calls, appended,
                   exported, quiet>>
    /\ UNCHANGED outsideBuffer

\* _flush(): the call self.exporter.export(to_export); the request is in
\* flight until ExportReturn.
ExportCall(t) ==
    /\ pc[t] = "export"
    /\ exported' = Append(exported,
                          [batch |-> to_export[t], by |-> t, result |-> "inflight"])
    /\ pc' = [pc EXCEPT ![t] = "exporting"]
    /\ UNCHANGED <<bufferState, gaugeState, data_point, to_export, calls,
                   appended, swapped, quiet>>
    /\ UNCHANGED outsideBuffer

\* The index in `exported` of the call thread t has in flight.
InFlight(t) ==
    CHOOSE i \in 1..Len(exported) :
        exported[i].by = t /\ exported[i].result = "inflight"

\* Mutant: a failed batch is put back in front of the pending list.
DataAfterExport_Requeue(d, batch, exc) == IF exc = "none" THEN d ELSE batch \o d

\* The pending list once export has returned or raised: _flush leaves it alone.
DataAfterExport(d, batch, exc) == d

\* _flush(): export returns or raises; `except Exception` prints and returns.
\* An exception the handler does not catch leaves _flush and its caller.
ExportReturn(t) ==
    /\ pc[t] = "exporting"
    /\ \E resp \in Responses :
         LET exc == ExportRaises(resp) IN
         /\ exported' = [exported EXCEPT ![InFlight(t)].result =
                            IF exc = "none" THEN "ok" ELSE "failed"]
         /\ data' = DataAfterExport(data, to_export[t], exc)
         /\ pc' = [pc EXCEPT ![t] =
                      IF exc = "none" \/ FlushCatches(exc) THEN AfterFlush(t)
                      ELSE "raised"]
    /\ to_export' = [to_export EXCEPT ![t] = << >>]
    /\ UNCHANGED <<_lock, _shutdown, gaugeState, data_point, calls, appended,
                   swapped, quiet>>
    /\ UNCHANGED outsideBuffer

\* Mutant: the loop body flushes before it sleeps.
LoopBody_FlushFirst == "flush_lock"

\* The first statement of the loop body: time.sleep(self.flush_interval).
LoopBody == "sleep"

\* _flush_loop(): `while not self._shutdown:`.
LoopCheck ==
    /\ pc[Worker] = "loop_check"
    /\ pc' = [pc EXCEPT ![Worker] = IF _shutdown THEN "done" ELSE LoopBody]
    /\ UNCHANGED <<bufferState, gaugeState, data_point, to_export, calls,
                   history>>
    /\ UNCHANGED outsideBuffer

\* _flush_loop(): time.sleep(self.flush_interval) returns.
Sleep ==
    /\ pc[Worker] = "sleep"
    /\ pc' = [pc EXCEPT ![Worker] = "wake_check"]
    /\ UNCHANGED <<bufferState, gaugeState, data_point, to_export, calls,
                   history>>
    /\ UNCHANGED outsideBuffer

\* Mutant: the worker flushes after every sleep, whatever the flag.
AfterWake_Unchecked(flag) == "flush_lock"

\* `if not self._shutdown: self._flush()`, then back to the loop test.
AfterWake(flag) == IF flag THEN "loop_check" ELSE "flush_lock"

\* _flush_loop(): `if not self._shutdown: self._flush()`.
WakeCheck ==
    /\ pc[Worker] = "wake_check"
    /\ pc' = [pc EXCEPT ![Worker] = AfterWake(_shutdown)]
    /\ UNCHANGED <<bufferState, gaugeState, data_point, to_export, calls,
                   history>>
    /\ UNCHANGED outsideBuffer

\* shutdown(): `self._shutdown = True`.
ShutdownCall ==
    /\ pc[Closer] = "idle"
    /\ _shutdown' = TRUE
    /\ pc' = [pc EXCEPT ![Closer] = "join"]
    /\ quiet' = (\A p \in Producers : pc[p] = "idle")
    /\ UNCHANGED <<data, _lock, gaugeState, data_point, to_export, calls,
                   appended, swapped, exported>>
    /\ UNCHANGED outsideBuffer

\* Mutant: shutdown() returns after the join, without the final flush.
AfterJoin_NoFlush == "done"

\* shutdown(): what follows the join is the final `self._flush()`.
AfterJoin == "flush_lock"

\* shutdown(): join(timeout=2.0) returns, because the worker has finished or
\* because the timeout has expired (at any moment, in this untimed model);
\* the final _flush() follows.
Join ==
    /\ pc[Closer] = "join"
    /\ pc' = [pc EXCEPT ![Closer] = AfterJoin]
    /\ UNCHANGED <<bufferState, gaugeState, data_point, to_export, calls,
                   history>>
    /\ UNCHANGED outsideBuffer

\* ------------------------------------------------------------------ Gauge

RECURSIVE Sum(_, _)
Sum(f, S) ==
    IF S = {} THEN 0
    ELSE LET x == CHOOSE y \in S : TRUE IN f[x] + Sum(f, S \ {x})

\* The instrument calls started so far.
TotalCalls == Sum(calls, Producers)

\* GaugeImpl.inc / dec: entering `with self._lock:`.
GaugeLock(p, op) ==
    /\ pc[p] = "idle"
    /\ TotalCalls < MaxCalls
    /\ gauge_lock = NoThread
    /\ gauge_lock' = p
    /\ calls' = [calls EXCEPT ![p] = @ + 1]
    /\ pc' = [pc EXCEPT ![p] = op]
    /\ UNCHANGED <<bufferState, _value, gauge_log, data_point, to_export,
                   history>>
    /\ UNCHANGED outsideBuffer

\* Mutant: dec() adds one, as inc() does.
Updated_IncOnly(op, v) == v + 1

\* Mutant: dec() leaves the accumulator as it is.
Updated_DecLost(op, v) == IF op = "gauge_inc" THEN v + 1 ELSE v

\* `self._value += 1.0` in inc, `self._value -= 1.0` in dec.
Updated(op, v) == IF op = "gauge_inc" THEN v + 1 ELSE v - 1

\* GaugeImpl.inc / dec: update the accumulator, read it, leave the block and
\* build the data point for buffer.add.
GaugeUpdate(p) ==
    /\ pc[p] \in {"gauge_inc", "gauge_dec"}
    /\ gauge_lock = p
    /\ _value' = Updated(pc[p], _value)
    /\ gauge_lock' = NoThread
    /\ gauge_log' = Append(gauge_log, [src |-> p, n |-> calls[p], op |-> pc[p],
                                       arg |-> 0, after |-> _value'])
    /\ data_point' = [data_point EXCEPT ![p] =
                         MetricDataPoint(p, calls[p], "gauge", _value')]
    /\ pc' = [pc EXCEPT ![p] = "add_check"]
    /\ UNCHANGED <<bufferState, to_export, calls, history>>
    /\ UNCHANGED outsideBuffer

\* The values given to Gauge.set.
GaugeValues == {0, 5}

\* GaugeImpl.set(value): entering `with self._lock:`; the call's data point
\* will carry the argument.
GaugeSetLock(p, v) ==
    /\ pc[p] = "idle"
    /\ TotalCalls < MaxCalls
    /\ gauge_lock = NoThread
    /\ gauge_lock' = p
    /\ calls' = [calls EXCEPT ![p] = @ + 1]
    /\ data_point' = [data_point EXCEPT ![p] =
                         MetricDataPoint(p, calls'[p], "gauge", v)]
    /\ pc' = [pc EXCEPT ![p] = "gauge_set"]
    /\ UNCHANGED <<bufferState, _value, gauge_log, to_export, history>>
    /\ UNCHANGED outsideBuffer

\* GaugeImpl.set: `self._value = value`, leave the block, call buffer.add
\* with the argument as the point's value.
GaugeSetUpdate(p) ==
    /\ pc[p] = "gauge_set"
    /\ gauge_lock = p
    /\ _value' = data_point[p].value
    /\ gauge_lock' = NoThread
    /\ gauge_log' = Append(gauge_log, [src |-> p, n |-> calls[p], op |-> pc[p],
                                       arg |-> data_point[p].value,
                                       after |-> _value'])
    /\ pc' = [pc EXCEPT ![p] = "add_check"]
    /\ UNCHANGED <<bufferState, data_point, to_export, calls, history>>
    /\ UNCHANGED outsideBuffer

\* --------------------------------------------------------- MetricsRegistry

\* Strings are sequences of character codes, so that the key can be built and
\* compared as the code does it: "," 44, "=" 61, "a".."d" 97..100, "m" 109,
\* "n" 110, "{" 123, "}" 125.
Names == { <<109>>, <<110>> }                   \* "m", "n"

\* A tag mapping is the sequence of its (key, value) pairs in insertion order.
TagAB == << <<97>>, <<98>> >>                       \* "a": "b"
TagCD == << <<99>>, <<100>> >>                      \* "c": "d"

TagDicts == { << >>, <<TagAB, TagCD>>, <<TagCD, TagAB>> }

Kinds == {"counter", "gauge", "histogram"}

RThreads == {"t1", "t2"}

\* Accessor calls made in total.
MaxLookups == 3

\* The order of Python's str comparison: by code point, a prefix first.
RECURSIVE StrLess(_, _)
StrLess(s, t) ==
    IF t = << >> THEN FALSE
    ELSE IF s = << >> THEN TRUE
    ELSE IF Head(s) # Head(t) THEN Head(s) < Head(t)
    ELSE StrLess(Tail(s), Tail(t))

\* Insert string x into the sorted sequence ss.
RECURSIVE Insert(_, _)
Insert(x, ss) ==
    IF ss = << >> THEN <<x>>
    ELSE IF StrLess(Head(ss), x) THEN <<Head(ss)>> \o Insert(x, Tail(ss))
    ELSE <<x>> \o ss

\* Mutant: the tag pairs are joined in insertion order.
Sorted_InsertionOrder(ss) == ss

\* sorted(...) of a sequence of strings.
RECURSIVE Sorted(_)
Sorted(ss) == IF ss = << >> THEN << >> ELSE Insert(Head(ss), Sorted(Tail(ss)))

\* ",".join(ss)
RECURSIVE StrJoin(_)
StrJoin(ss) ==
    IF ss = << >> THEN << >>
    ELSE IF Len(ss) = 1 THEN Head(ss)
    ELSE Head(ss) \o <<44>> \o StrJoin(Tail(ss))

\* f"{k}={v}" for each item of the mapping.
TagPairs(tags) == [i \in DOMAIN tags |-> tags[i][1] \o <<61>> \o tags[i][2]]

\* MetricsRegistry._metric_key: the name alone without tags, else
\* name{k1=v1,k2=v2} over the sorted "k=v" strings.
_metric_key(name, tags) ==
    IF tags = << >> THEN name
    ELSE name \o <<123>> \o StrJoin(Sorted(TagPairs(tags))) \o <<125>>

NoArgs == [kind |-> "none", name |-> << >>, tags |-> << >>, key |-> << >>]

\* What a call returning instrument object inst adds to the history.
Returns(t, kind, name, tags, inst) ==
    returned \cup {[kind |-> kind, name |-> name, tags |-> tags, inst |-> inst]}

\* counter() / gauge() / histogram(): compute the key and look it up without
\* the lock; on a hit return the stored object, else go for the lock.
Accessor(t, kind, name, tags) ==
    /\ rpc[t] = "idle"
    /\ lookups < MaxLookups
    /\ lookups' = lookups + 1
    /\ LET key == _metric_key(name, tags) IN
       IF key \in DOMAIN instruments[kind]
       THEN /\ returned' = Returns(t, kind, name, tags, instruments[kind][key])
            /\ UNCHANGED <<rpc, args>>
       ELSE /\ rpc' = [rpc EXCEPT ![t] = "lock"]
            /\ args' = [args EXCEPT ![t] = [kind |-> kind, name |-> name,
                                            tags |-> tags, key |-> key]]
            /\ UNCHANGED returned
    /\ UNCHANGED <<instruments, registry_lock, objects>>
    /\ UNCHANGED outsideRegistry

\* The accessor enters `with self._lock:`.
RegistryLock(t) ==
    /\ rpc[t] = "lock"
    /\ registry_lock = NoThread
    /\ registry_lock' = t
    /\ rpc' = [rpc EXCEPT ![t] = "create"]
    /\ UNCHANGED <<instruments, objects, args, lookups, returned>>
    /\ UNCHANGED outsideRegistry

\* Mutant: no second look under the lock.
FoundUnderLock_NoCheck(kind, key) == FALSE

\* The double check: `if key in self.counters` under the lock.
FoundUnderLock(kind, key) == key \in DOMAIN instruments[kind]

\* Under the lock: return the object stored meanwhile, or construct one over
\* a copy of the tags, store it under the key and return it.
RegistryCreate(t) ==
    /\ rpc[t] = "create"
    /\ registry_lock = t
    /\ LET a == args[t] IN
       IF FoundUnderLock(a.kind, a.key)
       THEN /\ returned' = Returns(t, a.kind, a.name, a.tags,
                                   instruments[a.kind][a.key])
            /\ UNCHANGED <<instruments, objects>>
       ELSE /\ objects' = Append(objects, [kind |-> a.kind, name |-> a.name,
                                           tags |-> a.tags])
            /\ instruments' = [instruments EXCEPT ![a.kind] =
                                  (a.key :> Len(objects')) @@ @]
            /\ returned' = Returns(t, a.kind, a.name, a.tags, Len(objects'))
    /\ registry_lock' = NoThread
    /\ rpc' = [rpc EXCEPT ![t] = "idle"]
    /\ args' = [args EXCEPT ![t] = NoArgs]
    /\ UNCHANGED lookups
    /\ UNCHANGED outsideRegistry

\* ------------------------------------------------------------ _metric_key

\* The inputs of the key function: names and tag values that hold the
\* characters the key format itself uses.
KeyNames == { <<109>>,                              \* "m"
              <<109, 123, 97, 61, 98, 125>> }       \* "m{a=b}"

TagAWide == << <<97>>, <<98, 44, 99, 61, 100>> >>   \* "a": "b,c=d"
TagEF == << <<101>>, <<102>> >>                     \* "e": "f"

KeyTags == {TagAB, TagCD, TagAWide, TagEF}

\* Items per tag mapping.
MaxTags == 2

\* Calls of _metric_key whose results are kept side by side.
MaxKeyed == 2

\* The mappings of at most MaxTags items: a dict holds a key once.
KeyTagDicts ==
    {d \in UNION {[1..n -> KeyTags] : n \in 0..MaxTags} :
        \A i, j \in DOMAIN d : i # j => d[i][1] # d[j][1]}

\* One call _metric_key(name, tags).
MetricKey(name, tags) ==
    /\ Cardinality(keyed) < MaxKeyed
    /\ keyed' = keyed \cup {[name |-> name, tags |-> tags,
                              key |-> _metric_key(name, tags)]}
    /\ UNCHANGED outsideKey

\* ---------------------------------------------------------------- Counter

\* The deltas given to Counter.add; inc() gives 1.
CounterValues == {-1, 0}

\* Mutant: a delta of zero is rejected too.
Rejected_NonPositive(v) == v <= 0

\* CounterImpl.add: `if value < 0: return`.
Rejected(v) == v < 0

\* CounterImpl.add(value): nothing for a negative value, else build the data
\* point and call buffer.add.
CounterAdd(p, v) ==
    /\ pc[p] = "idle"
    /\ TotalCalls < MaxCalls
    /\ calls' = [calls EXCEPT ![p] = @ + 1]
    /\ counter_calls' = [counter_calls EXCEPT ![p] = Append(@, v)]
    /\ IF Rejected(v)
       THEN UNCHANGED <<pc, data_point>>
       ELSE /\ data_point' = [data_point EXCEPT ![p] =
                                 MetricDataPoint(p, calls'[p], "counter", v)]
            /\ pc' = [pc EXCEPT ![p] = "add_check"]
    /\ UNCHANGED <<bufferState, gaugeState, to_export, history>>
    /\ UNCHANGED outsideMetrics

\* CounterImpl.inc: `self.add(1.0)`.
CounterInc(p) == CounterAdd(p, 1)

\* -------------------------------------------------------- MetricsExporter

\* Metric names as character codes: "a", and "a:b" with ":" 58.
ExportNames == { <<97>>, <<97, 58, 98>> }

\* A data point's tags: none, or "a": "b".
ExportTags == { << >>, <<TagAB>> }

ExportValues == {1}

MaxPoints == 2

\* The data points export() may be given; the timestamp is left out.
ExportPoints ==
    [name : ExportNames, metric_type : Kinds, tags : ExportTags,
     value : ExportValues]

\* The lists of at most MaxPoints data points.
ExportLists == UNION {[1..n -> ExportPoints] : n \in 0..MaxPoints}

\* The characters of dp.metric_type.
TypeStr(kind) ==
    CASE kind = "counter" -> <<99, 111, 117, 110, 116, 101, 114>>
      [] kind = "gauge" -> <<103, 97, 117, 103, 101>>
      [] kind = "histogram" -> <<104, 105, 115, 116, 111, 103, 114, 97, 109>>

\* key = f"{dp.name}:{dp.metric_type}"
GroupKey(dp) == dp.name \o <<58>> \o TypeStr(dp.metric_type)

\* The keys of `grouped`, in insertion order.
RECURSIVE GroupKeys(_)
GroupKeys(dps) ==
    IF dps = << >> THEN << >>
    ELSE LET before == GroupKeys(SubSeq(dps, 1, Len(dps) - 1))
             key == GroupKey(dps[Len(dps)])
         IN  IF \E i \in DOMAIN before : before[i] = key THEN before
             ELSE Append(before, key)

\* grouped[key]
Grouped(dps, key) == SelectSeq(dps, LAMBDA dp : GroupKey(dp) = key)

\* Where key.split(':', 1) splits: at the first ":".
SplitAt(key) ==
    CHOOSE i \in DOMAIN key :
        key[i] = 58 /\ \A j \in DOMAIN key : j < i => key[j] # 58

\* One entry of otlp_data_points.
OtlpDataPoint(dp) ==
    [attributes |-> [i \in DOMAIN dp.tags |->
                        [key |-> dp.tags[i][1],
                         value |-> [stringValue |-> dp.tags[i][2]]]],
     asDouble |-> dp.value]

\* The metric built for one key of `grouped`.
Metric(dps, key) ==
    LET name == SubSeq(key, 1, SplitAt(key) - 1)
        metric_type == SubSeq(key, SplitAt(key) + 1, Len(key))
        otlp_data_points == [i \in DOMAIN Grouped(dps, key) |->
                                OtlpDataPoint(Grouped(dps, key)[i])]
    IN  IF metric_type = TypeStr("counter")
        THEN [name |-> name,
              sum |-> [dataPoints |-> otlp_data_points,
                       aggregationTemporality |-> 2,
                       isMonotonic |-> TRUE]]
        ELSE [name |-> name,
              gauge |-> [dataPoints |-> otlp_data_points]]

\* The `metrics` array of the payload _to_otlp returns.
_to_otlp(dps) ==
    [i \in DOMAIN GroupKeys(dps) |-> Metric(dps, GroupKeys(dps)[i])]

\* The statuses a response may carry.
Statuses == {200, 204, 503}

\* Mutant: every 2xx status is a success.
StatusOk_Any2xx(status) == status \in 200..299

\* `if response.status != 200: raise`.
StatusOk(status) == status = 200

\* export(data_points): return on an empty list; else encode the payload and
\* create the connection object.
Export(dps) ==
    /\ xpc = "idle"
    /\ data_points' = dps
    /\ IF dps = << >>
       THEN /\ xpc' = "returned"
            /\ UNCHANGED <<payload, conn>>
       ELSE /\ payload' = _to_otlp(dps)
            /\ conn' = "open"
            /\ xpc' = "request"
    /\ UNCHANGED <<requests, status_code, raised>>
    /\ UNCHANGED outsideExporter

\* conn.request('POST', ...): sent, or a transport error.
Request ==
    /\ xpc = "request"
    /\ \E sent \in BOOLEAN :
         IF sent
         THEN /\ requests' = requests + 1
              /\ xpc' = "getresponse"
              /\ UNCHANGED raised
         ELSE /\ raised' = "OSError"
              /\ xpc' = "finally"
              /\ UNCHANGED requests
    /\ UNCHANGED <<data_points, payload, conn, status_code>>
    /\ UNCHANGED outsideExporter

\* conn.getresponse() and the status test: a transport error (0), or a
\* response whose status is tested.
GetResponse ==
    /\ xpc = "getresponse"
    /\ \E resp \in Statuses \cup {0} :
         IF resp = 0
         THEN /\ raised' = "OSError"
              /\ xpc' = "finally"
              /\ UNCHANGED status_code
         ELSE /\ status_code' = resp
              /\ IF StatusOk(resp)
                 THEN xpc' = "read" /\ UNCHANGED raised
                 ELSE xpc' = "finally" /\ raised' = "Exception"
    /\ UNCHANGED <<data_points, payload, conn, requests>>
    /\ UNCHANGED outsideExporter

\* response.read(): the body is consumed, or a transport error.
ReadResponse ==
    /\ xpc = "read"
    /\ \E done \in BOOLEAN :
         raised' = IF done THEN "none" ELSE "OSError"
    /\ xpc' = "finally"
    /\ UNCHANGED <<data_points, payload, conn, requests, status_code>>
    /\ UNCHANGED outsideExporter

\* `finally: conn.close()`, then export returns or the exception leaves it.
Finally ==
    /\ xpc = "finally"
    /\ conn' = "closed"
    /\ xpc' = IF raised = "none" THEN "returned" ELSE "raised"
    /\ UNCHANGED <<data_points, payload, requests, status_code, raised>>
    /\ UNCHANGED outsideExporter

\* ------------------------------------------------- TracekitClient: spans

\* Attribute values: a Python type and a content. The content of a string is
\* its text, of a list or tuple the sequence of its elements.
StrValue == [type |-> "str", v |-> "x"]
IntValue == [type |-> "int", v |-> 1]
FloatValue == [type |-> "float", v |-> 2]
BoolValue == [type |-> "bool", v |-> TRUE]
ListValue == [type |-> "list", v |-> <<IntValue, StrValue>>]
TupleValue == [type |-> "tuple", v |-> <<BoolValue>>]
ObjectValue == [type |-> "object", v |-> 3]

\* str(value): a string is its own string form.
StrOf(value) ==
    IF value.type = "str" THEN value
    ELSE [type |-> "str", v |-> ToString(value.v)]

\* Mutant: only a list is converted element by element.
NormalizeValue_ListOnly(value) ==
    IF value.type \in {"str", "int", "float", "bool"} THEN value
    ELSE IF value.type = "list"
         THEN [type |-> "list",
               v |-> [i \in DOMAIN value.v |-> StrOf(value.v[i])]]
         ELSE StrOf(value)

\* The value _normalize_attributes stores for one value.
NormalizeValue(value) ==
    IF value.type \in {"str", "int", "float", "bool"} THEN value
    ELSE IF value.type \in {"list", "tuple"}
         THEN [type |-> "list",
               v |-> [i \in DOMAIN value.v |-> StrOf(value.v[i])]]
         ELSE StrOf(value)

\* _normalize_attributes(attributes): a mapping is the sequence of its
\* (key, value) pairs.
_normalize_attributes(attributes) ==
    [i \in DOMAIN attributes |->
        <<attributes[i][1], NormalizeValue(attributes[i][2])>>]

\* The attribute mappings given to the client's methods, listed; the first
\* stands for None and for {}.
AttributeDicts ==
    << << >>,
       << <<"k", StrValue>> >>,
       << <<"k", IntValue>>, <<"j", FloatValue>> >>,
       << <<"k", BoolValue>>, <<"j", ListValue>> >>,
       << <<"k", TupleValue>> >>,
       << <<"k", ObjectValue>> >> >>

\* The status argument of end_span; "omitted" is a call without it.
StatusArgs == {"OK", "ERROR", "UNSET", "omitted"}

\* The exceptions given to record_exception: type name, str(exception) and
\* the frames of its traceback.
NoException == [type |-> "", message |-> "", frames |-> << >>]

Exceptions ==
    { [type |-> "ValueError", message |-> "bad value",
       frames |-> <<[file |-> "app.py", line |-> 7, fn |-> "main"]>>],
      [type |-> "RuntimeError", message |-> "", frames |-> << >>] }

MaxEnds == 2

MaxSpanCalls == 2

\* One operation invoked on the span object (or, for the first, on the
\* tracer), with the fields it does not use left empty.
SpanOp(op, name, attributes, status, description, exception) ==
    [op |-> op, name |-> name, attributes |-> attributes, status |-> status,
     description |-> description, exception |-> exception]

\* The operations of one client call, as they are recorded: with the call's
\* number and the state the call found the span in.
Recorded(ops, call, was) ==
    [i \in DOMAIN ops |->
        [call |-> call, was |-> was, op |-> ops[i].op, name |-> ops[i].name,
         attributes |-> ops[i].attributes, status |-> ops[i].status,
         description |-> ops[i].description, exception |-> ops[i].exception]]

\* One entry of span_log: a client call and its arguments.
ClientCall(method, attributes, status, exception) ==
    [method |-> method, attributes |-> attributes, status |-> status,
     exception |-> exception]

\* kind=trace.SpanKind.SERVER in start_trace, SpanKind.INTERNAL in start_span.
KindOf(method) == IF method = "start_trace" THEN "SERVER" ELSE "INTERNAL"

\* start_trace / start_span: self.tracer.start_span(operation_name, kind,
\* attributes=self._normalize_attributes(attributes or {})).
StartSpan(method, attributes) ==
    /\ span_state = "Unstarted"
    /\ span_state' = "Active"
    /\ span_kind' = KindOf(method)
    /\ span_log' = Append(span_log,
                          ClientCall(method, attributes, "none", NoException))
    /\ span_ops' = span_ops \o
           Recorded(<<SpanOp("tracer.start_span", "",
                             _normalize_attributes(attributes), "none", "",
                             NoException)>>,
                    Len(span_log'), span_state)
    /\ UNCHANGED ends
    /\ UNCHANGED outsideSpan

start_trace(attributes) == StartSpan("start_trace", attributes)

start_span(attributes) == StartSpan("start_span", attributes)

\* Mutant: a call without the status argument sets no status.
StatusOrDefault_Unset(given) == IF given = "omitted" THEN "UNSET" ELSE given

\* `status: str = "OK"` in end_span's signature.
StatusOrDefault(given) == IF given = "omitted" THEN "OK" ELSE given

\* The operations one end_span call invokes on the span, in order.
EndSpanOps(final_attributes, status) ==
    (IF Len(final_attributes) # 0
     THEN <<SpanOp("set_attributes", "",
                   _normalize_attributes(final_attributes), "none", "",
                   NoException)>>
     ELSE << >>)
    \o (IF status = "ERROR"
        THEN <<SpanOp("set_status", "", << >>, "ERROR", "", NoException)>>
        ELSE IF status = "OK"
        THEN <<SpanOp("set_status", "", << >>, "OK", "", NoException)>>
        ELSE << >>)
    \o <<SpanOp("end", "", << >>, "none", "", NoException)>>

\* end_span(span, final_attributes, status) on a span that was started.
EndSpan(final_attributes, given) ==
    /\ span_state # "Unstarted"
    /\ ends < MaxEnds
    /\ Len(span_log) <= MaxSpanCalls
    /\ ends' = ends + 1
    /\ span_log' = Append(span_log,
                          ClientCall("end_span", final_attributes, given,
                                     NoException))
    /\ span_ops' = span_ops \o
           Recorded(EndSpanOps(final_attributes, StatusOrDefault(given)),
                    Len(span_log'), span_state)
    /\ span_state' = "Ended"
    /\ UNCHANGED span_kind
    /\ UNCHANGED outsideSpan

\* add_event(span, name, attributes): span.add_event(name,
\* attributes=self._normalize_attributes(attributes or {})).
AddEvent(attributes) ==
    /\ span_state # "Unstarted"
    /\ Len(span_log) <= MaxSpanCalls
    /\ span_log' = Append(span_log,
                          ClientCall("add_event", attributes, "none",
                                     NoException))
    /\ span_ops' = span_ops \o
           Recorded(<<SpanOp("add_event", "event",
                             _normalize_attributes(attributes), "none", "",
                             NoException)>>,
                    Len(span_log'), span_state)
    /\ UNCHANGED <<span_state, span_kind, ends>>
    /\ UNCHANGED outsideSpan

\* _format_stacktrace(exception): the lines of traceback.format_exception,
\* joined: the header, one `File "<file>", line <n>, in <fn>` line per frame,
\* and the final `<type>: <message>` line.
_format_stacktrace(exception) ==
    <<[text |-> "Traceback (most recent call last):", file |-> "",
       line |-> 0, fn |-> ""]>>
    \o [i \in DOMAIN exception.frames |->
           [text |-> "File", file |-> exception.frames[i].file,
            line |-> exception.frames[i].line, fn |-> exception.frames[i].fn]]
    \o <<[text |-> exception.type, file |-> exception.message,
          line |-> 0, fn |-> ""]>>

\* Mutant: the status is set without the exception's message.
RecordExceptionOps_NoDescription(exception) ==
    <<SpanOp("add_event", "exception",
             << <<"exception.type", [type |-> "str", v |-> exception.type]>>,
                <<"exception.message",
                  [type |-> "str", v |-> exception.message]>>,
                <<"exception.stacktrace",
                  [type |-> "str", v |-> _format_stacktrace(exception)]>> >>,
             "none", "", NoException),
      SpanOp("record_exception", "", << >>, "none", "", exception),
      SpanOp("set_status", "", << >>, "ERROR", "", NoException)>>

\* The operations one record_exception call invokes on the span, in order.
RecordExceptionOps(exception) ==
    <<SpanOp("add_event", "exception",
             << <<"exception.type", [type |-> "str", v |-> exception.type]>>,
                <<"exception.message",
                  [type |-> "str", v |-> exception.message]>>,
                <<"exception.stacktrace",
                  [type |-> "str", v |-> _format_stacktrace(exception)]>> >>,
             "none", "", NoException),
      SpanOp("record_exception", "", << >>, "none", "", exception),
      SpanOp("set_status", "", << >>, "ERROR", exception.message,
             NoException)>>

\* record_exception(span, exception): the "exception" event, the engine's
\* own record_exception, then the Error status with str(exception); the span
\* is not ended.
RecordException(exception) ==
    /\ span_state # "Unstarted"
    /\ Len(span_log) <= MaxSpanCalls
    /\ span_log' = Append(span_log,
                          ClientCall("record_exception", << >>, "none",
                                     exception))
    /\ span_ops' = span_ops \o
           Recorded(RecordExceptionOps(exception), Len(span_log'), span_state)
    /\ UNCHANGED <<span_state, span_kind, ends>>
    /\ UNCHANGED outsideSpan

\* span.set_status(Status(code)) on the engine's span: Ok, once set, is
\* final; Unset changes nothing; otherwise the new code replaces the old one,
\* Ok replacing Error too.
SetStatus(current, status) ==
    IF current = "OK" \/ status = "UNSET" THEN current ELSE status

\* The status of the span once the operations ops have been invoked on it,
\* starting from Unset; only set_status changes it.
RECURSIVE StatusAfter(_)
StatusAfter(ops) ==
    IF ops = << >> THEN "UNSET"
    ELSE LET before == StatusAfter(SubSeq(ops, 1, Len(ops) - 1))
             last == ops[Len(ops)]
         IN  IF last.op = "set_status" THEN SetStatus(before, last.status)
             ELSE before

\* ------------------------------------------- TracekitClient: span nesting

MaxSpans == 4

\* No span: the engine's context holds none, a span has no parent.
NoSpan == 0

\* The spans that start_trace returned and end_span has not been given.
OpenTraces ==
    {j \in DOMAIN spans : spans[j].method = "start_trace" /\ ~spans[j].ended}

\* start_trace / start_span among other spans: tracer.start_span(name, kind,
\* attributes) is called without a context, so the engine takes the parent
\* from the span active in its current context; the call activates nothing.
NestedStart(method) ==
    /\ Len(spans) < MaxSpans
    /\ spans' = Append(spans,
                       [method |-> method, kind |-> KindOf(method),
                        parent |-> current_span, open |-> OpenTraces,
                        ended |-> FALSE])
    /\ UNCHANGED current_span
    /\ UNCHANGED outsideTrace

\* end_span on one of the spans: span.end(); the context is not touched.
NestedEnd(i) ==
    /\ ~spans[i].ended
    /\ spans' = [spans EXCEPT ![i].ended = TRUE]
    /\ UNCHANGED current_span
    /\ UNCHANGED outsideTrace

\* ------------------------------------------------ tracekit: init, get_client

MaxModuleCalls == 5

\* `_global_client: Optional[TracekitClient] = None`; clients are numbered
\* from 1 in the order of their construction.
NoClient == 0

\* One entry of module_log.
ModuleCall(fn, outcome, client, count) ==
    [fn |-> fn, outcome |-> outcome, client |-> client, created |-> count]

\* Mutant: init keeps the client of an earlier init.
Assigned_KeepFirst(old, new) == IF old = NoClient THEN new ELSE old

\* `_global_client = TracekitClient(config)`.
Assigned(old, new) == new

\* init(...): builds the configuration, constructs a client, stores it in
\* the global and returns the global.
InitReturns ==
    /\ Len(module_log) < MaxModuleCalls
    /\ created' = created + 1
    /\ _global_client' = Assigned(_global_client, created')
    /\ module_log' = Append(module_log,
                            ModuleCall("init", "returned", _global_client',
                                       created'))
    /\ UNCHANGED outsideModule

\* init(...) whose TracekitClient(config) raises: the assignment is not
\* reached.
InitRaises ==
    /\ Len(module_log) < MaxModuleCalls
    /\ module_log' = Append(module_log,
                            ModuleCall("init", "raised", NoClient, created))
    /\ UNCHANGED <<_global_client, created>>
    /\ UNCHANGED outsideModule

\* get_client(): RuntimeError when the global is None, else the global.
GetClient ==
    /\ Len(module_log) < MaxModuleCalls
    /\ module_log' = Append(module_log,
           IF _global_client = NoClient
           THEN ModuleCall("get_client", "RuntimeError", NoClient, created)
           ELSE ModuleCall("get_client", "returned", _global_client, created))
    /\ UNCHANGED <<_global_client, created>>
    /\ UNCHANGED outsideModule

\* ------------------------------------------- MetricsRegistry: tags copied

MaxTagSteps == 4

\* The reference of the mapping the caller passes to the accessors.
CallerTags == 1

\* The assignments the caller makes to its mapping: tags[k] = v.
TagAD == << <<97>>, <<100>> >>                      \* "a": "d"

Assignments == {TagAB, TagCD, TagAD}

\* tags[k] = v on a mapping: the value of k replaced, or the pair added.
SetItem(tags, pair) ==
    IF \E i \in DOMAIN tags : tags[i][1] = pair[1]
    THEN [i \in DOMAIN tags |->
             IF tags[i][1] = pair[1] THEN pair ELSE tags[i]]
    ELSE Append(tags, pair)

\* The caller assigns to its own mapping.
TagsSet(pair) ==
    /\ tag_steps < MaxTagSteps
    /\ tag_steps' = tag_steps + 1
    /\ heap' = [heap EXCEPT ![CallerTags] = SetItem(@, pair)]
    /\ UNCHANGED <<held, tag_points>>
    /\ UNCHANGED outsideTags

\* Mutant: the constructor is given the caller's mapping itself.
TagsGiven_Shared(given, copy) == given

\* `CounterImpl(name, tags.copy(), self.buffer)`: the constructor is given
\* the copy.
TagsGiven(given, copy) == copy

\* counter(name, tags) with the caller's mapping: an instrument registered
\* under the key is returned, else tags.copy() makes a new mapping and the
\* instrument constructed over it is stored under the key.
TagsAccessor(name) ==
    /\ tag_steps < MaxTagSteps
    /\ tag_steps' = tag_steps + 1
    /\ LET key == _metric_key(name, heap[CallerTags]) IN
       IF \E i \in DOMAIN held : held[i].key = key
       THEN UNCHANGED <<heap, held>>
       ELSE /\ heap' = Append(heap, heap[CallerTags])
            /\ held' = Append(held,
                              [name |-> name, key |-> key,
                               tags |-> TagsGiven(CallerTags, Len(heap')),
                               given |-> heap[CallerTags]])
    /\ UNCHANGED tag_points
    /\ UNCHANGED outsideTags

\* inc() on one of the instruments: MetricDataPoint(name=self.name,
\* tags=self.tags, ...), with the tags as they are read then.
TagsEmit(i) ==
    /\ tag_steps < MaxTagSteps
    /\ tag_steps' = tag_steps + 1
    /\ tag_points' = Append(tag_points,
                            [inst |-> i, name |-> held[i].name,
                             tags |-> heap[held[i].tags],
                             caller |-> heap[CallerTags]])
    /\ UNCHANGED <<heap, held>>
    /\ UNCHANGED outsideTags

\* ------------------------------------------------------ _resolve_endpoint

MaxResolved == 2

\* A URL is the sequence of its parts: a scheme with its "://", a host (with
\* its port), "/" and the path segments.
Schemes == {"http://", "https://"}

TracesPath == <<"/", "v1", "/", "traces">>

MetricsPath == <<"/", "v1", "/", "metrics">>

\* The path argument: '/v1/traces', '/v1/metrics', or '' for snapshots.
Paths == {<< >>, TracesPath, MetricsPath}

Endpoints ==
    { <<"host">>,
      <<"host", "/">>,
      <<"http://", "host">>,
      <<"https://", "host">>,
      <<"http://", "host", "/">>,
      <<"http://", "host">> \o TracesPath,
      <<"https://", "host">> \o MetricsPath,
      <<"http://", "host", "/", "custom", "/", "path">>,
      <<"https://", "host", "/", "api", "/", "v2", "/">>,
      <<"https://", "host", "/", "api">> \o TracesPath }

HasScheme(url) == url # << >> /\ Head(url) \in Schemes

\* url.rstrip('/')
RECURSIVE RStrip(_)
RStrip(url) ==
    IF url # << >> /\ url[Len(url)] = "/"
    THEN RStrip(SubSeq(url, 1, Len(url) - 1))
    ELSE url

EndsWith(url, suffix) ==
    /\ Len(suffix) <= Len(url)
    /\ SubSeq(url, Len(url) - Len(suffix) + 1, Len(url)) = suffix

\* The place of the first "/" after the scheme, or 0.
FirstSlash(url) ==
    IF \E i \in DOMAIN url : url[i] = "/"
    THEN CHOOSE i \in DOMAIN url :
             url[i] = "/" /\ \A j \in 1..(i - 1) : url[j] # "/"
    ELSE 0

\* Mutant: the URL is returned as it is.
_extract_base_url_AsIs(url) == url

\* _extract_base_url(url): scheme and host of a URL whose path ends with
\* /v1/traces or /v1/metrics; any other URL as it is.
_extract_base_url(url) ==
    IF /\ HasScheme(url)
       /\ FirstSlash(url) # 0
       /\ \/ EndsWith(url, TracesPath)
          \/ EndsWith(url, MetricsPath)
    THEN SubSeq(url, 1, FirstSlash(url) - 1)
    ELSE url

\* _resolve_endpoint(endpoint, path, use_ssl).
_resolve_endpoint(endpoint, path, use_ssl) ==
    LET stripped == RStrip(endpoint) IN
    IF HasScheme(endpoint)
    THEN IF FirstSlash(stripped) # 0
         THEN IF path = << >> THEN _extract_base_url(stripped) ELSE stripped
         ELSE stripped \o path
    ELSE <<IF use_ssl THEN "https://" ELSE "http://">> \o stripped \o path

\* One call of _resolve_endpoint.
Resolve(endpoint, path, use_ssl) ==
    /\ Cardinality(resolved) < MaxResolved
    /\ resolved' = resolved \cup
           {[endpoint |-> endpoint, path |-> path, use_ssl |-> use_ssl,
             result |-> _resolve_endpoint(endpoint, path, use_ssl)]}
    /\ UNCHANGED outsideResolve

\* ---------------------------------------------------------- specification

Init ==
    /\ data = << >>
    /\ _lock = NoThread
    /\ _shutdown = FALSE
    /\ _value = 0
    /\ gauge_lock = NoThread
    /\ pc = [t \in Threads |->
                IF t = Worker THEN "loop_check" ELSE "idle"]
    /\ data_point = [p \in Producers |-> NoPoint]
    /\ to_export = [t \in Threads |-> << >>]
    /\ calls = [p \in Producers |-> 0]
    /\ appended = << >>
    /\ swapped = << >>
    /\ exported = << >>
    /\ quiet = FALSE
    /\ gauge_log = << >>
    /\ counter_calls = [p \in Producers |-> << >>]
    /\ instruments = [k \in Kinds |-> << >>]
    /\ registry_lock = NoThread
    /\ objects = << >>
    /\ rpc = [t \in RThreads |-> "idle"]
    /\ args = [t \in RThreads |-> NoArgs]
    /\ lookups = 0
    /\ returned = {}
    /\ keyed = {}
    /\ xpc = "idle"
    /\ data_points = << >>
    /\ payload = << >>
    /\ conn = "none"
    /\ requests = 0
    /\ status_code = 0
    /\ raised = "none"
    /\ span_state = "Unstarted"
    /\ span_kind = "none"
    /\ span_ops = << >>
    /\ span_log = << >>
    /\ ends = 0
    /\ spans = << >>
    /\ current_span = NoSpan
    /\ _global_client = NoClient
    /\ created = 0
    /\ module_log = << >>
    /\ heap = << << >> >>
    /\ held = << >>
    /\ tag_points = << >>
    /\ tag_steps = 0
    /\ resolved = {}

BufferNext ==
    \/ \E p \in Producers : AddCheck(p)
    \/ \E p \in Producers : AddLock(p)
    \/ \E p \in Producers : AddAppend(p)
    \/ \E t \in Threads : FlushLock(t)
    \/ \E t \in Threads : FlushSwap(t)
    \/ \E t \in Threads : ExportCall(t)
    \/ \E t \in Threads : ExportReturn(t)
    \/ LoopCheck
    \/ Sleep
    \/ WakeCheck
    \/ ShutdownCall
    \/ Join

Next ==
    \/ BufferNext
    \/ \E p \in Producers : GaugeLock(p, "gauge_inc")
    \/ \E p \in Producers : GaugeUpdate(p)

Spec == Init /\ [][Next]_vars

\* Every thread keeps running: a step of add(), _flush(), _flush_loop() or
\* the join that a thread can take is taken in the end, and each export call
\* returns. Starting an instrument call and calling shutdown() are left to
\* the program.
Fairness ==
    /\ \A p \in Producers :
          /\ WF_vars(AddCheck(p)) /\ WF_vars(AddLock(p)) /\ WF_vars(AddAppend(p))
    /\ \A t \in Threads :
          /\ WF_vars(FlushLock(t)) /\ WF_vars(FlushSwap(t))
          /\ WF_vars(ExportCall(t)) /\ WF_vars(ExportReturn(t))
    /\ WF_vars(LoopCheck) /\ WF_vars(Sleep) /\ WF_vars(WakeCheck)
    /\ WF_vars(Join)

\* Producers calling Counter.inc() over the buffer with its worker and
\* shutdown().
NextShutdown ==
    \/ BufferNext
    \/ \E p \in Producers : CounterInc(p)

SpecFair == Init /\ [][NextShutdown]_vars /\ Fairness

\* Producers writing to one counter over an open buffer: the worker flushes
\* on its timer and a producer flushes at max_size; shutdown() is not called.
NextCounter ==
    \/ \E p \in Producers : AddCheck(p)
    \/ \E p \in Producers : AddLock(p)
    \/ \E p \in Producers : AddAppend(p)
    \/ \E t \in Threads : FlushLock(t)
    \/ \E t \in Threads : FlushSwap(t)
    \/ \E t \in Threads : ExportCall(t)
    \/ \E t \in Threads : ExportReturn(t)
    \/ LoopCheck
    \/ Sleep
    \/ WakeCheck
    \/ \E p \in Producers : \E v \in CounterValues : CounterAdd(p, v)
    \/ \E p \in Producers : CounterInc(p)

SpecCounter == Init /\ [][NextCounter]_vars

\* Producers calling set / inc / dec on one gauge over an open buffer, which
\* the producers flush at max_size; the timed flush is left to Spec.
NextGauge ==
    \/ \E p \in Producers : \E v \in GaugeValues : GaugeSetLock(p, v)
    \/ \E p \in Producers : GaugeSetUpdate(p)
    \/ \E p \in Producers : GaugeLock(p, "gauge_inc")
    \/ \E p \in Producers : GaugeLock(p, "gauge_dec")
    \/ \E p \in Producers : GaugeUpdate(p)
    \/ \E p \in Producers : AddCheck(p)
    \/ \E p \in Producers : AddLock(p)
    \/ \E p \in Producers : AddAppend(p)
    \/ \E t \in Threads : FlushLock(t)
    \/ \E t \in Threads : FlushSwap(t)
    \/ \E t \in Threads : ExportCall(t)
    \/ \E t \in Threads : ExportReturn(t)

SpecGauge == Init /\ [][NextGauge]_vars

\* One call of MetricsExporter.export.
NextExporter ==
    \/ \E dps \in ExportLists : Export(dps)
    \/ Request
    \/ GetResponse
    \/ ReadResponse
    \/ Finally

SpecExporter == Init /\ [][NextExporter]_vars

\* Several spans of one thread, started and ended in any order.
NextTrace ==
    \/ NestedStart("start_trace")
    \/ NestedStart("start_span")
    \/ \E i \in DOMAIN spans : NestedEnd(i)

SpecTrace == Init /\ [][NextTrace]_vars

\* The module-level functions, called by one thread in any order.
NextModule ==
    \/ InitReturns
    \/ InitRaises
    \/ GetClient

SpecModule == Init /\ [][NextModule]_vars

\* One caller, its tag mapping, and the instruments made from it.
NextTags ==
    \/ \E pair \in Assignments : TagsSet(pair)
    \/ \E name \in Names : TagsAccessor(name)
    \/ \E i \in DOMAIN held : TagsEmit(i)

SpecTags == Init /\ [][NextTags]_vars

\* Calls of _resolve_endpoint over the endpoints and paths.
NextResolve ==
    \E endpoint \in Endpoints : \E path \in Paths : \E use_ssl \in BOOLEAN :
        Resolve(endpoint, path, use_ssl)

SpecResolve == Init /\ [][NextResolve]_vars

\* One span, started and then given to end_span.
NextSpan ==
    \/ \E i \in DOMAIN AttributeDicts : start_trace(AttributeDicts[i])
    \/ \E i \in DOMAIN AttributeDicts : start_span(AttributeDicts[i])
    \/ \E i \in DOMAIN AttributeDicts : \E given \in StatusArgs :
          EndSpan(AttributeDicts[i], given)
    \/ \E i \in DOMAIN AttributeDicts : AddEvent(AttributeDicts[i])
    \/ \E exception \in Exceptions : RecordException(exception)

SpecSpan == Init /\ [][NextSpan]_vars

\* The registry accessors called from several threads.
NextRegistry ==
    \/ \E t \in RThreads, kind \in Kinds, name \in Names, tags \in TagDicts :
          Accessor(t, kind, name, tags)
    \/ \E t \in RThreads : RegistryLock(t)
    \/ \E t \in RThreads : RegistryCreate(t)

SpecRegistry == Init /\ [][NextRegistry]_vars

\* _metric_key applied to bounded names and tag mappings.
NextKey == \E name \in KeyNames, tags \in KeyTagDicts : MetricKey(name, tags)

SpecKey == Init /\ [][NextKey]_vars

\* ----------------------------------------------------------------- helpers

RECURSIVE Flatten(_)
Flatten(ss) == IF ss = << >> THEN << >> ELSE Head(ss) \o Flatten(Tail(ss))

Points(s) == {s[i] : i \in DOMAIN s}

Distinct(s) == \A i, j \in DOMAIN s : i # j => s[i] # s[j]

IsPrefix(s, t) == Len(s) <= Len(t) /\ SubSeq(t, 1, Len(s)) = s

\* The batches handed to exporter.export, in call order.
ExportedBatches == [i \in DOMAIN exported |-> exported[i].batch]

\* The batches _flush swapped out of the pending list, in swap order.
SwappedBatches == [i \in DOMAIN swapped |-> swapped[i].batch]

\* ------------------------------------------------------------------ claims

\* C1: the batches handed to exporter.export are pairwise disjoint and hold
\* only points that add() appended: no point appears in two batches (or twice
\* in one), whichever thread made the flush.
C1_BatchesPartition ==
    /\ Distinct(Flatten(ExportedBatches))
    /\ Points(Flatten(ExportedBatches)) \subseteq Points(appended)

\* C1 witness: a producer's size-triggered flush and the worker's timed flush
\* have both handed a batch to the exporter.
C1_Witness ==
    /\ \E i \in DOMAIN exported : exported[i].by \in Producers
    /\ \E i \in DOMAIN exported : exported[i].by = Worker

\* C2: the batches, concatenated in the order in which _flush swapped them
\* out, are a prefix of the appends in lock-acquisition order (so each batch
\* keeps the append order of its points).
C2_FlushOrder == IsPrefix(Flatten(SwappedBatches), appended)

\* C2 witness: two batches were swapped out, the first of at least two points,
\* and points of both producers were appended.
C2_Witness ==
    /\ Len(swapped) >= 2
    /\ Len(swapped[1].batch) >= 2
    /\ \A p \in Producers : \E i \in DOMAIN appended : appended[i].src = p

\* Producer p is the only thread that has appended or flushed so far, and
\* none of its add() calls was dropped.
SingleProducer(p) ==
    /\ \A i \in DOMAIN appended : appended[i].src = p
    /\ \A i \in DOMAIN swapped : swapped[i].by = p
    /\ pc[p] = "idle"
    /\ calls[p] = Len(appended)

\* C3: with a single producer and no timed flush, when the n-th add() has
\* returned the exporter has been called once per max_size points, by the
\* producer itself, each batch being the next max_size appends in order, and
\* what is pending is the remainder: nothing is exported before the
\* max_size-th add, and that add exports all max_size points and leaves the
\* pending list empty.
C3_SizeFlush ==
    \A p \in Producers :
        SingleProducer(p) =>
            /\ Len(exported) = Len(appended) \div max_size
            /\ \A i \in DOMAIN exported :
                  /\ exported[i].by = p
                  /\ exported[i].result # "inflight"
                  /\ exported[i].batch =
                        SubSeq(appended, (i - 1) * max_size + 1, i * max_size)
            /\ data = SubSeq(appended,
                             Len(exported) * max_size + 1, Len(appended))

\* C3 witness: the single producer's max_size-th add() has returned, having
\* made the one export.
C3_Witness ==
    \E p \in Producers :
        /\ SingleProducer(p)
        /\ Len(appended) = max_size
        /\ Len(exported) = 1
        /\ data = << >>

\* The worker is between flushes (or has finished).
WorkerNotFlushing == pc[Worker] \in {"loop_check", "sleep", "wake_check", "done"}

\* C4: if k points, 0 < k < max_size, were added and shutdown() was called
\* with no add in progress, then when shutdown() has returned the pending
\* list is empty and each of the k points is in exactly one swapped-out batch;
\* once the worker is not in a flush either, the exporter has been handed
\* exactly those k points, each once.
C4_ShutdownFlushesAll ==
    (/\ pc[Closer] = "done"
     /\ quiet
     /\ Len(appended) > 0
     /\ Len(appended) < max_size)
    => /\ data = << >>
       /\ Distinct(Flatten(SwappedBatches))
       /\ Points(Flatten(SwappedBatches)) = Points(appended)
       /\ WorkerNotFlushing =>
             /\ Distinct(Flatten(ExportedBatches))
             /\ Points(Flatten(ExportedBatches)) = Points(appended)
             /\ Len(Flatten(ExportedBatches)) = Len(appended)

\* C4 witness: shutdown() has returned after points were added below the
\* threshold, and its final flush handed them to the exporter.
C4_Witness ==
    /\ pc[Closer] = "done"
    /\ quiet
    /\ Len(appended) > 0
    /\ Len(appended) < max_size
    /\ WorkerNotFlushing
    /\ \E i \in DOMAIN exported : exported[i].by = Closer

\* C5: an add() call that begins (reads the flag) once the shutdown flag is
\* set returns at once without raising, and leaves the pending list and the
\* exporter untouched.
C5_AddAfterShutdownDropped ==
    [][\A p \in Producers :
          (pc[p] = "add_check" /\ _shutdown /\ pc'[p] # "add_check")
          => /\ pc'[p] = "idle"
             /\ data' = data
             /\ appended' = appended
             /\ swapped' = swapped
             /\ exported' = exported]_vars

\* C5 witness: a producer's latest call has returned without its point ever
\* being appended, the flag being set.
C5_Witness ==
    \E p \in Producers :
        /\ _shutdown
        /\ pc[p] = "idle"
        /\ calls[p] > 0
        /\ \A i \in DOMAIN appended :
              ~(appended[i].src = p /\ appended[i].n = calls[p])

\* C6: once shutdown() has returned the pending list is empty (and stays so),
\* whatever add() calls run concurrently with it.
C6_EmptyAfterShutdown == pc[Closer] = "done" => data = << >>

\* C7: an exception raised by exporter.export never leaves _flush: whatever
\* the outcome of an export, the add() that made it returns to the producer,
\* the worker goes back to the test of its loop, and shutdown() returns.
C7_ExportErrorsContained ==
    [][\A t \in Threads :
          (pc[t] = "exporting" /\ pc'[t] # "exporting")
          => pc'[t] = IF t = Worker THEN "loop_check"
                      ELSE IF t = Closer THEN "done"
                      ELSE "idle"]_vars

\* C7 witness: an export made by a producer's add() and one made by the
\* worker have both failed; the producer is back to idle and the worker is
\* sleeping again.
C7_Witness ==
    /\ \E i \in DOMAIN exported :
          /\ exported[i].result = "failed"
          /\ exported[i].by \in Producers
          /\ pc[exported[i].by] = "idle"
    /\ \E i \in DOMAIN exported :
          /\ exported[i].result = "failed"
          /\ exported[i].by = Worker
    /\ pc[Worker] = "sleep"

\* The number of times point pt was handed to the exporter.
TimesExported(pt) ==
    Cardinality({i \in DOMAIN Flatten(ExportedBatches) :
                    Flatten(ExportedBatches)[i] = pt})

\* C8: no retry: a point of a batch whose export has returned or failed was
\* handed to the exporter exactly once, is not in the pending list again and
\* is in no flush's to_export.
C8_NoRetry ==
    \A i \in DOMAIN exported :
        exported[i].result # "inflight" =>
            \A pt \in Points(exported[i].batch) :
                /\ TimesExported(pt) = 1
                /\ pt \notin Points(data)
                /\ \A t \in Threads : pt \notin Points(to_export[t])

\* C8 witness: an export failed, and a later flush has swapped out and
\* exported another batch since.
C8_Witness ==
    \E i, j \in DOMAIN exported :
        /\ i < j
        /\ exported[i].result = "failed"
        /\ exported[j].result = "ok"

\* C9: a thread that is inside exporter.export holds neither the buffer lock
\* nor the gauge's lock.
C9_NoLockAcrossIO ==
    \A t \in Threads :
        pc[t] \in {"export", "exporting"} => _lock # t /\ gauge_lock # t

\* C9 witness: while one thread's export is in flight, a producer is inside
\* add()'s critical section, holding the buffer lock.
C9_Witness ==
    \E t \in Threads, p \in Producers :
        /\ pc[t] = "exporting"
        /\ pc[p] = "add_append"
        /\ _lock = p

\* The set of key-value pairs of a tag mapping.
TagSet(tags) == {tags[i] : i \in DOMAIN tags}

\* C10: two accessor calls of one kind with the same name and the same tag
\* pairs, in whatever insertion order, return the identical object.
C10_SameInstance ==
    \A r1, r2 \in returned :
        (/\ r1.kind = r2.kind
         /\ r1.name = r2.name
         /\ TagSet(r1.tags) = TagSet(r2.tags))
        => r1.inst = r2.inst

\* C10 witness: two calls gave the same two tags in opposite insertion orders
\* and got the same object.
C10_Witness ==
    \E r1, r2 \in returned :
        /\ r1.kind = r2.kind
        /\ r1.name = r2.name
        /\ TagSet(r1.tags) = TagSet(r2.tags)
        /\ r1.tags # r2.tags
        /\ r1.inst = r2.inst

\* C11: under concurrent first use, every object constructed is the one
\* stored under its key (so no key ever had a second object constructed, and
\* no entry was replaced or removed), and every call was handed the object
\* stored under its key.
C11_CreatedOnce ==
    /\ \A i \in DOMAIN objects :
          LET key == _metric_key(objects[i].name, objects[i].tags) IN
          /\ key \in DOMAIN instruments[objects[i].kind]
          /\ instruments[objects[i].kind][key] = i
    /\ \A r \in returned :
          LET key == _metric_key(r.name, r.tags) IN
          /\ key \in DOMAIN instruments[r.kind]
          /\ instruments[r.kind][key] = r.inst

\* C11 witness: a thread that missed the lock-free lookup is waiting for (or
\* holds) the registry lock while another thread has already stored the
\* object for the same key.
C11_Witness ==
    \E t \in RThreads :
        /\ rpc[t] \in {"lock", "create"}
        /\ args[t].key \in DOMAIN instruments[args[t].kind]

\* C12: the key does not depend on the insertion order of the tags: two
\* calls with the same name and the same tag pairs return the same key; and
\* with no tags the key is the name.
C12_KeyOrderIndependent ==
    /\ \A r1, r2 \in keyed :
          (r1.name = r2.name /\ TagSet(r1.tags) = TagSet(r2.tags))
          => r1.key = r2.key
    /\ \A r \in keyed : r.tags = << >> => r.key = r.name

\* C12 witness: the same two tags were given in both insertion orders and
\* the two calls returned one key.
C12_Witness ==
    \E r1, r2 \in keyed :
        /\ r1.name = r2.name
        /\ TagSet(r1.tags) = TagSet(r2.tags)
        /\ r1.tags # r2.tags
        /\ r1.key = r2.key

\* A producer's call is between the instrument's buffer.add call and the
\* append to the pending list.
Adding(p) == pc[p] \in {"add_check", "add_lock", "add_append"}

\* The data points producer p has handed to buffer.add, in order: the ones
\* appended and the one its call in progress carries.
EmittedBy(p) ==
    SelectSeq(appended, LAMBDA pt : pt.src = p)
        \o (IF Adding(p) THEN <<data_point[p]>> ELSE << >>)

\* The data point each Counter.add / Counter.inc call of producer p would
\* carry, in call order.
CallPoints(p) ==
    [i \in DOMAIN counter_calls[p] |->
        MetricDataPoint(p, i, "counter", counter_calls[p][i])]

\* C13: on an open buffer the counter data points a thread has emitted are
\* exactly its add(v) / inc() calls with v >= 0, in call order, each carrying
\* its v (1 for inc); a call with v < 0 emits nothing and raises nothing.
C13_CounterEmitsNonNegative ==
    \A p \in Producers :
        /\ EmittedBy(p) = SelectSeq(CallPoints(p), LAMBDA pt : pt.value >= 0)
        /\ pc[p] # "raised"

\* C13 witness: add of a negative value then add of a non-negative value have
\* both returned, and one data point was recorded, by the second call.
C13_Witness ==
    \E p \in Producers :
        /\ Len(counter_calls[p]) = 2
        /\ counter_calls[p][1] < 0
        /\ counter_calls[p][2] >= 0
        /\ pc[p] = "idle"
        /\ SelectSeq(appended, LAMBDA pt : pt.src = p)
              = <<MetricDataPoint(p, 2, "counter", counter_calls[p][2])>>

\* Every call made so far was Counter.inc().
OnlyInc == \A p \in Producers : \A i \in DOMAIN counter_calls[p] :
               counter_calls[p][i] = 1

\* The inc() calls of producer p whose append has happened.
Written(p) == IF Adding(p) THEN calls[p] - 1 ELSE calls[p]

\* C14: while no flush has taken the pending list, the list holds exactly one
\* data point per inc() call whose append has happened, whatever the
\* interleaving of the threads: none is lost and none is duplicated.
C14_NoLostWrites ==
    (OnlyInc /\ swapped = << >>) =>
        /\ Distinct(data)
        /\ Points(data) =
              UNION {{MetricDataPoint(p, i, "counter", 1) : i \in 1..Written(p)} :
                        p \in Producers}
        /\ Len(data) = Sum([p \in Producers |-> Written(p)], Producers)

\* C14 witness: both threads have written, every inc() has been appended
\* and no flush has happened: the list holds all MaxCalls points.
C14_Witness ==
    /\ OnlyInc
    /\ swapped = << >>
    /\ \A p \in Producers : calls[p] >= 1 /\ ~Adding(p)
    /\ Len(data) = MaxCalls

\* The gauge's updates made by producer p, in the order they were applied.
UpdatesBy(p) == SelectSeq(gauge_log, LAMBDA e : e.src = p)

\* C15: every set(v) / inc() / dec() call updates the accumulator to v,
\* previous + 1, previous - 1 (the first previous being 0) and emits exactly
\* one gauge data point, whose value is the accumulator's value right after
\* the call's own update.
C15_GaugeEmitsPostUpdate ==
    /\ \A i \in DOMAIN gauge_log :
          LET e == gauge_log[i]
              previous == IF i = 1 THEN 0 ELSE gauge_log[i - 1].after
          IN  e.after = CASE e.op = "gauge_set" -> e.arg
                          [] e.op = "gauge_inc" -> previous + 1
                          [] e.op = "gauge_dec" -> previous - 1
    /\ _value = IF gauge_log = << >> THEN 0
                ELSE gauge_log[Len(gauge_log)].after
    /\ \A p \in Producers :
          /\ Len(UpdatesBy(p)) =
                IF pc[p] \in {"gauge_set", "gauge_inc", "gauge_dec"}
                THEN calls[p] - 1 ELSE calls[p]
          /\ EmittedBy(p) =
                [i \in DOMAIN UpdatesBy(p) |->
                    MetricDataPoint(p, UpdatesBy(p)[i].n, "gauge",
                                    UpdatesBy(p)[i].after)]

\* C15 witness: a set, an inc and a dec have all been applied and their
\* points appended, and another thread's update came between a call's update
\* and its append.
C15_Witness ==
    /\ {gauge_log[i].op : i \in DOMAIN gauge_log}
          = {"gauge_set", "gauge_inc", "gauge_dec"}
    /\ Len(appended) = Len(gauge_log)
    /\ \E i \in DOMAIN gauge_log : appended[i].src # gauge_log[i].src

\* C16: the worker starts a flush only when a sleep of flush_interval has
\* just returned, and does start one after every sleep that finds the
\* shutdown flag unset; with zero adds each such flush finds the list empty
\* and returns to the loop, and the exporter is never called.
C16_TimedFlush ==
    [][ /\ (pc[Worker] # "flush_lock" /\ pc'[Worker] = "flush_lock")
             => (pc[Worker] = "wake_check" /\ ~_shutdown)
        /\ (pc[Worker] # "wake_check" /\ pc'[Worker] = "wake_check")
             => pc[Worker] = "sleep"
        /\ (pc[Worker] = "wake_check" /\ ~_shutdown /\ pc'[Worker] # pc[Worker])
             => pc'[Worker] = "flush_lock"
        /\ TotalCalls' = 0 =>
              /\ exported' = << >>
              /\ (pc[Worker] = "flush_swap" /\ pc'[Worker] # pc[Worker])
                    => (pc'[Worker] = "loop_check" /\ data' = << >>)
      ]_vars

\* C16 witness: no add was made, a sleep has returned with shutdown not
\* signalled, and the worker is inside the flush it started, on empty data.
C16_Witness ==
    /\ TotalCalls = 0
    /\ ~_shutdown
    /\ pc[Worker] = "flush_swap"
    /\ data = << >>
    /\ exported = << >>

\* C17: once the shutdown flag is set the worker terminates: after a sleep
\* that finds the flag set it starts no flush, the loop test that finds the
\* flag set ends the loop, it never starts another sleep, and once finished
\* it stays finished.
C17_WorkerTerminates ==
    /\ _shutdown ~> (pc[Worker] = "done")
    /\ [][ /\ (_shutdown /\ pc[Worker] = "wake_check" /\ pc'[Worker] # pc[Worker])
                 => pc'[Worker] = "loop_check"
           /\ (_shutdown /\ pc[Worker] = "loop_check" /\ pc'[Worker] # pc[Worker])
                 => pc'[Worker] = "done"
           /\ (_shutdown /\ pc[Worker] # "sleep") => pc'[Worker] # "sleep"
           /\ pc[Worker] = "done" => pc'[Worker] = "done"
         ]_vars

\* C17 witness: shutdown was signalled while the worker was exporting a
\* batch, and the worker has finished.
C17_Witness ==
    /\ _shutdown
    /\ pc[Worker] = "done"
    /\ \E i \in DOMAIN exported : exported[i].by = Worker
    /\ \E i \in DOMAIN exported : exported[i].by = Closer

\* The distinct (name, kind) pairs of the data points given to export.
Pairs == {[name |-> data_points[i].name, kind |-> data_points[i].metric_type] :
             i \in DOMAIN data_points}

\* A metric entry is the encoding of a (name, kind) group: it carries the
\* group's name, under sum (DELTA, monotonic) for a counter and under gauge
\* for a gauge or a histogram.
EncodesPair(metric, pair) ==
    /\ metric.name = pair.name
    /\ IF pair.kind = "counter"
       THEN /\ "sum" \in DOMAIN metric
            /\ metric.sum.aggregationTemporality = 2
            /\ metric.sum.isMonotonic
       ELSE "gauge" \in DOMAIN metric

\* C18: for every non-empty list of data points the payload holds exactly
\* one metric entry per distinct (name, kind) pair, named as the points are,
\* a counter group under sum with aggregationTemporality 2 and isMonotonic,
\* a gauge or histogram group under gauge.
C18_OneEntryPerPair ==
    (xpc # "idle" /\ data_points # << >>) =>
        /\ Len(payload) = Cardinality(Pairs)
        /\ \E f \in [DOMAIN payload -> Pairs] :
              /\ \A pair \in Pairs : \E i \in DOMAIN payload : f[i] = pair
              /\ \A i \in DOMAIN payload : EncodesPair(payload[i], f[i])

\* C19: export on a non-empty batch returns normally exactly when the
\* response status is 200 and no transport error occurred, and raises
\* otherwise; once the connection object exists, every exit leaves it closed;
\* export on an empty list creates no connection and sends no request.
C19_ExportOutcome ==
    /\ (xpc \in {"returned", "raised"} /\ data_points # << >>) =>
          /\ (xpc = "returned") <=> (status_code = 200 /\ raised # "OSError")
          /\ (xpc = "raised") <=> (raised # "none")
          /\ conn = "closed"
    /\ (xpc # "idle" /\ data_points # << >>) => conn # "none"
    /\ data_points = << >> =>
          /\ xpc \in {"idle", "returned"}
          /\ conn = "none"
          /\ requests = 0

\* C19 witness: the response was a 2xx other than 200, export raised and the
\* connection is closed.
C19_Witness ==
    /\ xpc = "raised"
    /\ status_code = 204
    /\ requests = 1
    /\ conn = "closed"

\* C20: an end_span call on a span that is already Ended is a no-op: it
\* invokes no set_attributes, no set_status and no end on the span.
C20_SecondEndIsNoOp ==
    \A i \in DOMAIN span_ops : span_ops[i].was # "Ended"

\* The operations client call number c invoked, in order.
OpsOf(c) == SelectSeq(span_ops, LAMBDA o : o.call = c)

\* C21: end_span first applies the normalized final attributes, and only when
\* they are non-empty, then sets the status Error for "ERROR" and Ok for "OK"
\* (the value of an omitted status argument) and makes no status call for any
\* other value, and ends the span last.
C21_EndSpanSteps ==
    \A c \in DOMAIN span_log :
        span_log[c].method = "end_span" =>
            LET ops == OpsOf(c)
                given == span_log[c].status
                attrs == span_log[c].attributes
                hasAttrs == Len(attrs) # 0
                hasStatus == given \in {"OK", "ERROR", "omitted"}
                n == Len(ops)
            IN  /\ n = 1 + (IF hasAttrs THEN 1 ELSE 0)
                         + (IF hasStatus THEN 1 ELSE 0)
                /\ ops[n].op = "end"
                /\ hasAttrs =>
                       /\ ops[1].op = "set_attributes"
                       /\ ops[1].attributes = _normalize_attributes(attrs)
                /\ hasStatus =>
                       /\ ops[n - 1].op = "set_status"
                       /\ ops[n - 1].status =
                              (IF given = "ERROR" THEN "ERROR" ELSE "OK")

C21_Witness ==
    \E c \in DOMAIN span_log :
        /\ span_log[c].method = "end_span"
        /\ span_log[c].status = "omitted"
        /\ Len(span_log[c].attributes) # 0
        /\ Len(OpsOf(c)) = 3

\* C22: record_exception adds exactly one event, named "exception", with the
\* exception's type name, its message and the formatted stack trace, then
\* calls the span's own record_exception with the exception, then sets the
\* status Error with str(e) as description; it makes no other call, and the
\* next call finds the span in the state record_exception found it in.
C22_RecordExceptionSteps ==
    \A c \in DOMAIN span_log :
        span_log[c].method = "record_exception" =>
            LET ops == OpsOf(c)
                e == span_log[c].exception
            IN  /\ Len(ops) = 3
                /\ ops[1].op = "add_event"
                /\ ops[1].name = "exception"
                /\ Len(ops[1].attributes) = 3
                /\ ops[1].attributes[1] =
                       <<"exception.type", [type |-> "str", v |-> e.type]>>
                /\ ops[1].attributes[2] =
                       <<"exception.message",
                         [type |-> "str", v |-> e.message]>>
                /\ ops[1].attributes[3][1] = "exception.stacktrace"
                /\ LET trace == ops[1].attributes[3][2].v
                   IN  /\ Len(trace) = Len(e.frames) + 2
                       /\ trace[Len(trace)].text = e.type
                       /\ trace[Len(trace)].file = e.message
                       /\ \A i \in DOMAIN e.frames :
                              /\ trace[i + 1].file = e.frames[i].file
                              /\ trace[i + 1].line = e.frames[i].line
                              /\ trace[i + 1].fn = e.frames[i].fn
                /\ ops[2].op = "record_exception"
                /\ ops[2].exception = e
                /\ ops[3].op = "set_status"
                /\ ops[3].status = "ERROR"
                /\ ops[3].description = e.message
                /\ c + 1 \in DOMAIN span_log =>
                       \A i \in DOMAIN OpsOf(c + 1) :
                           OpsOf(c + 1)[i].was = ops[1].was

C22_Witness ==
    \E c \in DOMAIN span_log :
        /\ span_log[c].method = "record_exception"
        /\ span_log[c].exception.message # ""
        /\ c + 1 \in DOMAIN span_log
        /\ span_log[c + 1].method = "end_span"
        /\ OpsOf(c)[1].was = "Active"

\* The value normalization has to give for value v.
IsNormalOf(n, v) ==
    IF v.type \in {"str", "int", "float", "bool"} THEN n = v
    ELSE IF v.type \in {"list", "tuple"}
    THEN /\ n.type = "list"
         /\ Len(n.v) = Len(v.v)
         /\ \A i \in DOMAIN v.v :
                /\ n.v[i].type = "str"
                /\ n.v[i].v = (IF v.v[i].type = "str" THEN v.v[i].v
                               ELSE ToString(v.v[i].v))
    ELSE /\ n.type = "str"
         /\ n.v = ToString(v.v)

\* The operations that carry the attributes of a client call.
CarriesAttributes(o) ==
    /\ o.op \in {"tracer.start_span", "set_attributes", "add_event"}
    /\ o.name # "exception"

\* C23: the attributes start_trace, start_span, end_span and add_event hand
\* to the span are the normalized ones: the same keys in the same places,
\* strings, integers, floats and booleans unchanged, a list or tuple as the
\* list of its elements' string forms, any other value as its string form;
\* every value is then a scalar or a list of strings, and normalizing it
\* again changes nothing.
C23_Normalized ==
    \A c \in DOMAIN span_log :
        \A i \in DOMAIN OpsOf(c) :
            CarriesAttributes(OpsOf(c)[i]) =>
                LET given == span_log[c].attributes
                    out == OpsOf(c)[i].attributes
                IN  /\ Len(out) = Len(given)
                    /\ \A k \in DOMAIN given :
                           /\ out[k][1] = given[k][1]
                           /\ IsNormalOf(out[k][2], given[k][2])
                           /\ \/ out[k][2].type \in
                                     {"str", "int", "float", "bool"}
                              \/ /\ out[k][2].type = "list"
                                 /\ \A j \in DOMAIN out[k][2].v :
                                        out[k][2].v[j].type = "str"
                    /\ _normalize_attributes(out) = out

C23_Witness ==
    /\ \E c \in DOMAIN span_log :
           /\ span_log[c].method \in {"start_trace", "start_span"}
           /\ \E k \in DOMAIN span_log[c].attributes :
                  span_log[c].attributes[k][2].type = "object"
    /\ \E c \in DOMAIN span_log :
           /\ span_log[c].method = "add_event"
           /\ \E k \in DOMAIN span_log[c].attributes :
                  span_log[c].attributes[k][2].type = "tuple"
    /\ \E c \in DOMAIN span_log :
           /\ span_log[c].method = "end_span"
           /\ \E k \in DOMAIN span_log[c].attributes :
                  span_log[c].attributes[k][2].type = "list"
           /\ \E i \in DOMAIN OpsOf(c) : OpsOf(c)[i].op = "set_attributes"

\* C24: a span from start_trace has the server kind and a span from
\* start_span the internal kind, and a span that start_span creates while a
\* span returned by start_trace is started and not ended has such a span as
\* its parent.
C24_NestedUnderTrace ==
    \A i \in DOMAIN spans :
        /\ spans[i].method = "start_trace" => spans[i].kind = "SERVER"
        /\ spans[i].method = "start_span" =>
               /\ spans[i].kind = "INTERNAL"
               /\ spans[i].open # {} => spans[i].parent \in spans[i].open

\* The calls of init before call number i that returned.
CompletedInits(i) ==
    {j \in 1..(i - 1) :
        module_log[j].fn = "init" /\ module_log[j].outcome = "returned"}

Max(S) == CHOOSE x \in S : \A y \in S : y <= x

\* C25: get_client raises RuntimeError exactly when no call of init has
\* returned before it; otherwise it returns the client the most recent such
\* init constructed, and constructs none itself.
C25_GetClient ==
    \A i \in DOMAIN module_log :
        module_log[i].fn = "get_client" =>
            /\ module_log[i].outcome = "RuntimeError"
                   <=> CompletedInits(i) = {}
            /\ CompletedInits(i) # {} =>
                   /\ module_log[i].outcome = "returned"
                   /\ module_log[i].client =
                          module_log[Max(CompletedInits(i))].created
            /\ module_log[i].created =
                   (IF i = 1 THEN 0 ELSE module_log[i - 1].created)

C25_Witness ==
    \E i \in DOMAIN module_log :
        /\ module_log[i].fn = "get_client"
        /\ module_log[i].outcome = "returned"
        /\ Cardinality(CompletedInits(i)) = 2
        /\ \E j \in DOMAIN module_log :
               module_log[j].fn = "get_client"
               /\ module_log[j].outcome = "RuntimeError"

\* C26: whatever the caller does to its mapping after an accessor created an
\* instrument from it, the instrument's tags stay the ones given at creation,
\* so do the tags of every data point it emits, and the instrument stays
\* registered under the key of the name and the tags given at creation.
C26_TagsCopied ==
    /\ \A i \in DOMAIN held :
           /\ heap[held[i].tags] = held[i].given
           /\ held[i].key = _metric_key(held[i].name, held[i].given)
           /\ \A j \in DOMAIN held : held[j].key = held[i].key => j = i
    /\ \A p \in DOMAIN tag_points :
           tag_points[p].tags = held[tag_points[p].inst].given

C26_Witness ==
    \E p \in DOMAIN tag_points :
        /\ tag_points[p].caller # tag_points[p].tags
        /\ tag_points[p].tags # << >>

\* The endpoint has a path of its own: something follows its host beyond
\* slashes at the end.
OwnPath(endpoint) ==
    \E i \in DOMAIN endpoint :
        /\ endpoint[i] = "/"
        /\ \E j \in (i + 1)..Len(endpoint) : endpoint[j] # "/"

C28_KeyUnique ==
    \A r1, r2 \in keyed :
        (r1.name # r2.name \/ TagSet(r1.tags) # TagSet(r2.tags))
        => r1.key # r2.key

\* No set() has been applied to the gauge.
NoSet == \A i \in DOMAIN gauge_log : gauge_log[i].op # "gauge_set"

\* The updates of kind op among the first i applied.
Applied(op, i) == Cardinality({k \in 1..i : gauge_log[k].op = op})

\* The values of the gauge data points emitted so far, thread by thread, are
\* the accumulator values after the thread's own updates.
EmitsAccumulator ==
    \A p \in Producers :
        [i \in DOMAIN EmittedBy(p) |-> EmittedBy(p)[i].value]
            = [i \in DOMAIN UpdatesBy(p) |-> UpdatesBy(p)[i].after]

\* The accumulator values after the updates applied so far are pairwise
\* distinct.
DistinctValues ==
    \A i, k \in DOMAIN gauge_log :
        i # k => gauge_log[i].after # gauge_log[k].after

\* C29, as claimed: with n inc and m dec calls applied and no set, the
\* accumulator is n - m and the emitted values are the successive accumulator
\* values, which are pairwise distinct.
C29_NoLostUpdate ==
    NoSet =>
        /\ _value = Applied("gauge_inc", Len(gauge_log))
                        - Applied("gauge_dec", Len(gauge_log))
        /\ EmitsAccumulator
        /\ DistinctValues

\* C29, amended: with n inc and m dec calls applied and no set, the
\* accumulator is n - m, the value after the i-th update is the number of
\* incs less the number of decs among the first i, each update's value is
\* emitted by the call that made it, and the values are pairwise distinct
\* when the calls are all incs or all decs.
C29_NoLostUpdateAmended ==
    NoSet =>
        /\ _value = Applied("gauge_inc", Len(gauge_log))
                        - Applied("gauge_dec", Len(gauge_log))
        /\ \A i \in DOMAIN gauge_log :
               gauge_log[i].after =
                   Applied("gauge_inc", i) - Applied("gauge_dec", i)
        /\ EmitsAccumulator
        /\ (Applied("gauge_inc", Len(gauge_log)) = 0
            \/ Applied("gauge_dec", Len(gauge_log)) = 0) => DistinctValues

C29_Witness ==
    /\ NoSet
    /\ Len(gauge_log) = MaxCalls
    /\ Len(appended) = MaxCalls
    /\ Applied("gauge_inc", Len(gauge_log)) >= 1
    /\ Applied("gauge_dec", Len(gauge_log)) >= 1
    /\ \E p, q \in Producers : p # q /\ calls[p] >= 1 /\ calls[q] >= 1

\* The place in the order of updates of the update that made data point pt.
LogIndex(pt) ==
    CHOOSE i \in DOMAIN gauge_log :
        gauge_log[i].src = pt.src /\ gauge_log[i].n = pt.n

\* C30: the gauge's data points are appended to the pending list in the
\* order their updates were applied to the accumulator, and once every call
\* has returned the last point appended carries the accumulator's value.
C30_AppendedInUpdateOrder ==
    /\ \A i, k \in DOMAIN appended :
           i < k => LogIndex(appended[i]) < LogIndex(appended[k])
    /\ ((\A p \in Producers : pc[p] = "idle") /\ appended # << >>)
           => appended[Len(appended)].value = _value

\* C31: the pending list never holds more than max_size points, and no batch
\* handed to the exporter holds more than max_size points, however many
\* producers call add() concurrently.
C31_BoundedByMaxSize ==
    /\ Len(data) <= max_size
    /\ \A i \in DOMAIN exported : Len(exported[i].batch) <= max_size

\* C32: every data point that add() has appended to the pending list is
\* handed to exporter.export in the end, when every thread keeps running and
\* shutdown() is called at most once.
C32_EventuallyExported ==
    \A p \in Producers : \A n \in 1..MaxCalls :
        (MetricDataPoint(p, n, "counter", 1) \in Points(appended))
            ~> (MetricDataPoint(p, n, "counter", 1)
                    \in Points(Flatten(ExportedBatches)))

\* C33: when record_exception has set the status of a span to Error and
\* end_span is then called on the still active span without a status
\* argument, the span has the status Error when span.end() is invoked.
C33_ErrorKeptAtEnd ==
    \A i \in DOMAIN span_ops :
        (/\ span_ops[i].op = "end"
         /\ span_ops[i].was = "Active"
         /\ span_log[span_ops[i].call].status = "omitted"
         /\ \E c \in 1..(span_ops[i].call - 1) :
                span_log[c].method = "record_exception")
        => StatusAfter(SubSeq(span_ops, 1, i)) = "ERROR"

\* The dataPoints of a metric entry.
DataPointsOf(metric) ==
    IF "sum" \in DOMAIN metric THEN metric.sum.dataPoints
    ELSE metric.gauge.dataPoints

\* The data points given to export that belong to a (name, kind) pair, in
\* input order.
PointsOfPair(pair) ==
    SelectSeq(data_points,
              LAMBDA dp : dp.name = pair.name /\ dp.metric_type = pair.kind)

\* An encoded point carries one attribute per tag of data point dp, with the
\* tag's key and value, and dp's value as asDouble.
EncodesPoint(encoded, dp) ==
    /\ encoded.asDouble = dp.value
    /\ Len(encoded.attributes) = Len(dp.tags)
    /\ \A k \in DOMAIN dp.tags :
           /\ encoded.attributes[k].key = dp.tags[k][1]
           /\ encoded.attributes[k].value.stringValue = dp.tags[k][2]

\* The entries of the payload hold, one entry per (name, kind) pair and under
\* assignment f of entries to pairs, the encoded points of the pair in input
\* order and nothing else.
HoldsGroups(f) ==
    /\ \A pair \in Pairs : \E i \in DOMAIN payload : f[i] = pair
    /\ \A i, k \in DOMAIN payload : f[i] = f[k] => i = k
    /\ \A i \in DOMAIN payload :
           /\ Len(DataPointsOf(payload[i])) = Len(PointsOfPair(f[i]))
           /\ \A k \in DOMAIN PointsOfPair(f[i]) :
                  EncodesPoint(DataPointsOf(payload[i])[k],
                               PointsOfPair(f[i])[k])

\* C34: every data point of the input appears exactly once among the
\* dataPoints of the payload, in the metric entry of its own (name, kind)
\* pair, the points of a pair in input order, each with one attribute per
\* tag and its value as asDouble.
C34_PointsConserved ==
    (xpc # "idle" /\ data_points # << >>) =>
        \E f \in [DOMAIN payload -> Pairs] :
            /\ HoldsGroups(f)
            /\ \A i \in DOMAIN payload : EncodesPair(payload[i], f[i])

====
